---- MODULE Spec2Model ----
(***************************************************************************)
(* Verification model of the SEO article generator:                        *)
(*   - internal-link validation (modules/semantic_architect.py)            *)
(*   - the competitor acquisition cascade (modules/serp_analyzer.py)       *)
(*   - step 2a of the pipeline driver (app.py)                             *)
(* Strings that the code inspects character by character (URLs) are        *)
(* sequences of one-character strings; texts the code only passes around   *)
(* are TLA+ strings or tuples of their parts.                              *)
(***************************************************************************)
EXTENDS Integers, Sequences, FiniteSets, TLC

VARIABLES
    \* ---- find_internal_links ----
    sitemap_urls,   \* the sitemap_urls argument (st.session_state.sitemap_urls)
    response,       \* what the model call produced for the current call
    raw_links,      \* the parsed link objects, as they are after the call
    valid_links,    \* the returned list
    prev_links,     \* the list returned by the previous call (re-validation)
    link_pc         \* "ready" | "returned" | "revalidated" | "raised"

link_vars == <<sitemap_urls, response, raw_links, valid_links, prev_links, link_pc>>

VARIABLES
    \* ---- the world outside the program, for one run ----
    env,            \* what Google, DuckDuckGo, the page fetches and Gemini will do
    calls,          \* the outgoing calls made so far, in order
    \* ---- get_competitor_data ----
    num_results,    \* the num_results argument
    results,        \* first component of the returned pair
    source,         \* second component of the returned pair
    casc_pc         \* "ready" | "returned" | "raised"

casc_vars == <<num_results, results, source, casc_pc>>

VARIABLES
    \* ---- the pipeline driver (app.py) ----
    pipe_pc,            \* "idle" | "step1" | "step2" | "step2a" .. "step2d" | "step3" |
                        \*   "step4" | "stopped" | "done"
    running,            \* st.session_state.running
    num_serp_results,   \* the "Concurrents à analyser" slider
    serp_results,       \* local serp_results of step 2a
    competitor_summary, \* st.session_state.competitor_summary
    brief_called,       \* build_brief has been called in this run
    brief_summary,      \* the competitor_summary argument build_brief received
    pipeline_error,     \* the local pipeline_error: "" for None, else str(e)
    session,            \* st.session_state: keyword_data, insights, brief,
                        \*   internal_links, word_budget, result
    stage_status,       \* the st.status widgets s1..s4 created so far
    progress,           \* the steps entered so far, in order
    last_answer,        \* the step that last called the generator, and its answer
    files,              \* the files written to OUTPUT_DIR in this run
    history             \* len(st.session_state.history)

pipe_vars == <<pipe_pc, running, num_serp_results, serp_results, competitor_summary,
               brief_called, brief_summary, pipeline_error, session, stage_status,
               progress, last_answer, files, history>>

\* one call of GeminiWrapper.generate_content (modules/utils.py)
VARIABLES
    gw,             \* the wrapper's _model_name and _available_models, and the prompt
    gw_model,       \* position of `model` in candidates (0 before the loop)
    gw_attempt,     \* `attempt` of the retry loop
    gw_log,         \* the client calls and the sleeps made so far, in order
    gw_last_error,  \* last_error: <<>> for None, else <<error>>
    gw_pc,          \* "idle", "trying", "returned" or "raised"
    gw_raise        \* what was raised: "", "quota", "other" or "exhausted"

gw_vars == <<gw, gw_model, gw_attempt, gw_log, gw_last_error, gw_pc, gw_raise>>

\* one call of generate_insights or of calculate_word_budget on a given answer
VARIABLES
    fb_in,      \* the brief, the target length and the generator's answer
    fb_out,     \* what the function returned or raised
    fb_pc       \* "ready", "insights" or "budget"

fb_vars == <<fb_in, fb_out, fb_pc>>

\* one call of extract_json_from_text on a text, then json.loads on its result
VARIABLES
    ex_in,      \* the JSON value, the prose around it and the whole text
    ex_out,     \* what extract_json_from_text returned
    ex_parsed,  \* what json.loads made of it
    ex_pc       \* "ready", "extracted" or "parsed"

ex_vars == <<ex_in, ex_out, ex_parsed, ex_pc>>

\* the choice of the URLs offered in the prompt of find_internal_links
VARIABLES
    offer_sitemap,   \* sitemap_urls
    candidate_urls,  \* candidate_urls
    offer_pc         \* "ready" or "offered"

offer_vars == <<offer_sitemap, candidate_urls, offer_pc>>

\* the variables of the function-level specifications
aux_vars == <<fb_vars, ex_vars, offer_vars>>

vars == <<link_vars, env, calls, casc_vars, pipe_vars, gw_vars, aux_vars>>

---------------------------------------------------------------------------
(* Bounds *)
MaxUrlLen  == 2     \* longest enumerated URL, in characters
MaxSitemap == 1     \* most URLs in an enumerated sitemap (the worked example has 2)
MaxLinks   == 1     \* most link entries in an enumerated response (the worked example has 3)
MaxEntries == 2     \* most result entries on an enumerated search page
MaxNum     == 2     \* largest enumerated number of competitors asked for

---------------------------------------------------------------------------
(* Python string primitives used by the validator *)

Whitespace == {" "}
UrlChars   == {"a", "/"}
CandChars  == UrlChars \cup Whitespace

RECURSIVE lstrip(_, _)
lstrip(s, cs) ==
    IF s # <<>> /\ Head(s) \in cs THEN lstrip(Tail(s), cs) ELSE s

RECURSIVE rstrip(_, _)
rstrip(s, cs) ==
    IF s # <<>> /\ s[Len(s)] \in cs
    THEN rstrip(SubSeq(s, 1, Len(s) - 1), cs)
    ELSE s

\* str.strip(): both ends, whitespace
strip(s) == lstrip(rstrip(s, Whitespace), Whitespace)

\* a in b  (substring test; the empty string is in every string)
IsIn(a, b) == \E i \in 0..(Len(b) - Len(a)) : SubSeq(b, i + 1, i + Len(a)) = a

SeqRange(s) == {s[i] : i \in 1..Len(s)}

\* all sequences over S of length 0..n
RECURSIVE SeqsUpTo(_, _)
SeqsUpTo(S, n) ==
    IF n = 0 THEN {<<>>}
    ELSE LET shorter == SeqsUpTo(S, n - 1)
         IN  shorter \cup {Append(s, c) : s \in {t \in shorter : Len(t) = n - 1}, c \in S}


Max(S) == CHOOSE x \in S : \A y \in S : y <= x
Min(S) == CHOOSE x \in S : \A y \in S : x <= y

---------------------------------------------------------------------------
(* find_internal_links: the lookup structures *)

\* sitemap_set_exact = set(sitemap_urls)
sitemap_set_exact(sitemap) == SeqRange(sitemap)

\* sitemap_set_stripped = {u.rstrip("/"): u for u in sitemap_urls}
\* (a dict comprehension: for equal keys the last URL of the list wins)
sitemap_set_stripped_firstWins(sitemap) ==
    [k \in {rstrip(sitemap[i], {"/"}) : i \in 1..Len(sitemap)} |->
        sitemap[Min({i \in 1..Len(sitemap) : rstrip(sitemap[i], {"/"}) = k})]]

sitemap_set_stripped(sitemap) ==
    [k \in {rstrip(sitemap[i], {"/"}) : i \in 1..Len(sitemap)} |->
        sitemap[Max({i \in 1..Len(sitemap) : rstrip(sitemap[i], {"/"}) = k})]]

\* matched = next((s for s in sitemap_urls
\*                 if url_stripped in s or s.rstrip("/") in url_stripped), None)
\* as the index of s in sitemap_urls, 0 for None
matched(sitemap, url_stripped) ==
    LET hits == {i \in 1..Len(sitemap) :
                    \/ IsIn(url_stripped, sitemap[i])
                    \/ IsIn(rstrip(sitemap[i], {"/"}), url_stripped)}
    IN  IF hits = {} THEN 0 ELSE Min(hits)

(* A parsed link entry is [t, url, id]:                                    *)
(*   t = "str"     a JSON object whose "url" is the string url             *)
(*   t = "nokey"   a JSON object without "url"  (link.get gives "")        *)
(*   t = "nonstr"  a JSON object whose "url" is null or a number           *)
(*   t = "nonobj"  an entry that is not a JSON object                      *)
(* id is the identity of the dict object json.loads created (its position  *)
(* in the parsed list); the validator returns these same objects.          *)

\* One iteration of "for link in raw_links": what happens to this link.
\* act = "raise" (AttributeError), "skip" (continue without append) or
\* "append" (valid_links.append(link), link possibly rewritten in place).
ValidateLink_acceptAll(link, sitemap) ==
    IF link.t \in {"nonobj", "nonstr"} THEN [act |-> "raise", link |-> link]
    ELSE
    LET url          == IF link.t = "nokey" THEN <<>> ELSE strip(link.url)
        url_stripped == rstrip(url, {"/"})
        m            == matched(sitemap, url_stripped)
    IN  IF url = <<>> THEN [act |-> "skip", link |-> link]
        ELSE IF url \in sitemap_set_exact(sitemap)
             THEN [act |-> "append", link |-> link]
        ELSE IF url_stripped \in DOMAIN sitemap_set_stripped(sitemap)
             THEN [act |-> "append",
                   link |-> [link EXCEPT !.url = sitemap_set_stripped(sitemap)[url_stripped]]]
        ELSE IF m # 0 /\ sitemap[m] # <<>>
             THEN [act |-> "append", link |-> [link EXCEPT !.url = sitemap[m]]]
        ELSE [act |-> "append", link |-> link]

ValidateLink_keepForm(link, sitemap) ==
    IF link.t \in {"nonobj", "nonstr"} THEN [act |-> "raise", link |-> link]
    ELSE
    LET url          == IF link.t = "nokey" THEN <<>> ELSE strip(link.url)
        url_stripped == rstrip(url, {"/"})
        m            == matched(sitemap, url_stripped)
    IN  IF url = <<>> THEN [act |-> "skip", link |-> link]
        ELSE IF url \in sitemap_set_exact(sitemap)
             THEN [act |-> "append", link |-> link]
        ELSE IF url_stripped \in DOMAIN sitemap_set_stripped(sitemap)
             THEN [act |-> "append", link |-> link]
        ELSE IF m # 0 /\ sitemap[m] # <<>>
             THEN [act |-> "append", link |-> [link EXCEPT !.url = sitemap[m]]]
        ELSE [act |-> "skip", link |-> link]

ValidateLink(link, sitemap) ==
    \* link.get on a non-dict, or .strip() on a non-string: AttributeError
    IF link.t \in {"nonobj", "nonstr"} THEN [act |-> "raise", link |-> link]
    ELSE
    LET url          == IF link.t = "nokey" THEN <<>> ELSE strip(link.url)
        url_stripped == rstrip(url, {"/"})
        m            == matched(sitemap, url_stripped)
    IN  IF url = <<>> THEN [act |-> "skip", link |-> link]
        \* Validation 1: exact URL in the sitemap
        ELSE IF url \in sitemap_set_exact(sitemap)
             THEN [act |-> "append", link |-> link]
        \* Validation 2: same URL without trailing slash -> canonical version
        ELSE IF url_stripped \in DOMAIN sitemap_set_stripped(sitemap)
             THEN [act |-> "append",
                   link |-> [link EXCEPT !.url = sitemap_set_stripped(sitemap)[url_stripped]]]
        \* Validation 3: partial match; "if matched:" is false for None and ""
        ELSE IF m # 0 /\ sitemap[m] # <<>>
             THEN [act |-> "append", link |-> [link EXCEPT !.url = sitemap[m]]]
        ELSE [act |-> "skip", link |-> link]

\* valid_links.append(link)
AppendLink_prepend(valid, link) == <<link>> \o valid

AppendLink(valid, link) == Append(valid, link)

\* the loop "for link in raw_links", from entry i on
RECURSIVE ValidateLoop(_, _, _, _)
ValidateLoop(sitemap, raw, i, valid) ==
    IF i > Len(raw)
    THEN [status |-> "returned", raw_links |-> raw, valid_links |-> valid]
    ELSE LET r == ValidateLink(raw[i], sitemap)
         IN  CASE r.act = "raise" ->
                    [status |-> "raised", raw_links |-> raw, valid_links |-> <<>>]
               [] r.act = "skip" ->
                    ValidateLoop(sitemap, raw, i + 1, valid)
               [] r.act = "append" ->
                    ValidateLoop(sitemap, [raw EXCEPT ![i] = r.link], i + 1,
                                 AppendLink(valid, r.link))

(* A model response is [kind, links]:                                       *)
(*   "gen_error"      generate_content raised                              *)
(*   "no_json"        extract_json_from_text returned None                 *)
(*   "bad_json"       json.loads raised JSONDecodeError                    *)
(*   "array"          the JSON is a top-level array                        *)
(*   "obj_nokey"      an object without "internal_links"                   *)
(*   "obj_links_null" an object whose "internal_links" is null             *)
(*   "obj"            an object whose "internal_links" is the list links   *)
find_internal_links(sitemap, resp) ==
    IF sitemap = <<>>
    THEN [status |-> "returned", raw_links |-> <<>>, valid_links |-> <<>>]
    ELSE CASE resp.kind \in {"gen_error", "no_json", "bad_json"} ->
                [status |-> "returned", raw_links |-> <<>>, valid_links |-> <<>>]
           \* data.get on a list: AttributeError, not caught
           [] resp.kind = "array" ->
                [status |-> "raised", raw_links |-> <<>>, valid_links |-> <<>>]
           [] resp.kind = "obj_nokey" ->
                [status |-> "returned", raw_links |-> <<>>, valid_links |-> <<>>]
           \* for link in None: TypeError, not caught
           [] resp.kind = "obj_links_null" ->
                [status |-> "raised", raw_links |-> <<>>, valid_links |-> <<>>]
           [] resp.kind = "obj" ->
                ValidateLoop(sitemap, resp.links, 1, <<>>)

---------------------------------------------------------------------------
(* Inputs of the link validator *)

\* the trusted URLs and the candidates of the worked example
UrlC      == <<"h","t","t","p","s",":","/","/","x",".","f","r","/","a","/","b","/","c">>
UrlCSlash == Append(UrlC, "/")
UrlD      == <<"h","t","t","p","s",":","/","/","x",".","f","r","/","a","/","b","/","d">>
UrlDSlash == Append(UrlD, "/")
UrlNope   == <<"h","t","t","p","s",":","/","/","x",".","f","r","/","n","o","p","e">>

ExampleTrusted    == {UrlCSlash, UrlD}
ExampleCandidates == <<UrlC, UrlDSlash, UrlNope>>

\* json.loads gives every entry of the list its own object
Parse(entries) ==
    [i \in 1..Len(entries) |-> [t |-> entries[i].t, url |-> entries[i].url, id |-> i]]

Urls(links) == [i \in 1..Len(links) |-> links[i].url]

\* what fetch_sitemap can return: each URL is loc.text.strip(), the list
\* has no duplicates
SitemapUrlPool == {strip(s) : s \in SeqsUpTo(CandChars, MaxUrlLen)}

NoDuplicates(s) == \A i, j \in 1..Len(s) : s[i] = s[j] => i = j

SitemapInputs ==
    {s \in SeqsUpTo(SitemapUrlPool, MaxSitemap) : NoDuplicates(s)}
    \cup {<<UrlCSlash, UrlD>>, <<UrlD, UrlCSlash>>}

CandEntries ==
    {[t |-> "str", url |-> u] : u \in SeqsUpTo(CandChars, MaxUrlLen)}
    \cup {[t |-> k, url |-> <<>>] : k \in {"nokey", "nonstr", "nonobj"}}

Responses ==
    {[kind |-> k, links |-> <<>>] :
        k \in {"gen_error", "no_json", "bad_json", "array", "obj_nokey", "obj_links_null"}}
    \cup {[kind |-> "obj", links |-> Parse(es)] : es \in SeqsUpTo(CandEntries, MaxLinks)}
    \cup {[kind |-> "obj",
           links |-> Parse([i \in 1..3 |-> [t |-> "str", url |-> ExampleCandidates[i]]])]}

---------------------------------------------------------------------------
(* Specification of the link validator *)

IdleWorld ==
    /\ env = [google |-> [exc |-> FALSE, status |-> 200, blocked |-> FALSE, entries |-> 0],
              ddg    |-> [exc |-> FALSE, status |-> 200, entries |-> 0],
              failed_pages |-> {},
              gemini |-> [kind |-> "absent", err |-> "", n |-> 0]]
    /\ calls = <<>>

IdleCascade ==
    /\ num_results = 0
    /\ results = <<>>
    /\ source = <<>>
    /\ casc_pc = "ready"

\* _init_state: the defaults of a new browser session
FreshSession ==
    [keyword_data |-> "None", insights |-> "empty", brief |-> "None",
     internal_links |-> "empty", word_budget |-> "None", result |-> "None"]

NoAnswer == [step |-> "", kind |-> "", what |-> "", msg |-> ""]

IdlePipeline ==
    /\ pipe_pc = "idle"
    /\ running = FALSE
    /\ num_serp_results = 0
    /\ serp_results = <<>>
    /\ competitor_summary = <<>>
    /\ brief_called = FALSE
    /\ brief_summary = <<>>
    /\ pipeline_error = ""
    /\ session = FreshSession
    /\ stage_status = <<>>
    /\ progress = <<>>
    /\ last_answer = NoAnswer
    /\ files = <<>>
    /\ history = 0

NoBudget ==
    [intro |-> 0, sections |-> <<>>, faq |-> 0, conclusion |-> 0, total_calculated |-> 0]

NoInsights ==
    [people_also_ask |-> <<>>, related_subtopics |-> <<>>, user_problems |-> <<>>,
     editorial_angles |-> <<>>, lsi_keywords |-> <<>>, content_gaps |-> <<>>]

IdleFallback ==
    /\ fb_in = [brief |-> [sections |-> <<>>, faq |-> 0], target |-> 0,
                answer |-> [kind |-> "", what |-> "", msg |-> "",
                            insights |-> NoInsights, budget |-> NoBudget,
                            has_total |-> FALSE]]
    /\ fb_out = [status |-> "", msg |-> "", insights |-> NoInsights, budget |-> NoBudget]
    /\ fb_pc = "ready"

IdleExtract ==
    /\ ex_in = [value |-> <<>>, text |-> <<>>, layout |-> ""]
    /\ ex_out = [found |-> FALSE, text |-> <<>>]
    /\ ex_parsed = [ok |-> FALSE, value |-> <<>>]
    /\ ex_pc = "ready"

IdleOffer ==
    /\ offer_sitemap = <<>>
    /\ candidate_urls = <<>>
    /\ offer_pc = "ready"

IdleAux ==
    /\ IdleFallback
    /\ IdleExtract
    /\ IdleOffer

IdleGemini ==
    /\ gw = [model_name |-> "", available |-> <<>>, prompt |-> ""]
    /\ gw_model = 0
    /\ gw_attempt = 0
    /\ gw_log = <<>>
    /\ gw_last_error = <<>>
    /\ gw_pc = "idle"
    /\ gw_raise = ""

InitLinks ==
    /\ IdleAux
    /\ IdleGemini
    /\ IdleWorld
    /\ IdleCascade
    /\ IdlePipeline
    /\ sitemap_urls \in SitemapInputs
    /\ response = [kind |-> "none", links |-> <<>>]
    /\ raw_links = <<>>
    /\ valid_links = <<>>
    /\ prev_links = <<>>
    /\ link_pc = "ready"

\* step 2d of the pipeline: find_internal_links(brief, sitemap_urls, keyword, gemini)
CallFindInternalLinks ==
    /\ link_pc = "ready"
    /\ \E resp \in Responses :
         \E out \in {find_internal_links(sitemap_urls, resp)} :
             /\ response' = resp
             /\ raw_links' = out.raw_links
             /\ valid_links' = out.valid_links
             /\ link_pc' = out.status
    /\ UNCHANGED <<aux_vars, sitemap_urls, prev_links, env, calls, casc_vars, pipe_vars, gw_vars>>

\* the returned links are proposed again, against the same sitemap_urls
Revalidate ==
    /\ link_pc = "returned"
    /\ \E resp \in {[kind |-> "obj", links |-> Parse(valid_links)]} :
         \E out \in {find_internal_links(sitemap_urls, resp)} :
             /\ response' = resp
             /\ raw_links' = out.raw_links
             /\ valid_links' = out.valid_links
             /\ link_pc' = IF out.status = "returned" THEN "revalidated" ELSE out.status
    /\ prev_links' = valid_links
    /\ UNCHANGED <<aux_vars, sitemap_urls, env, calls, casc_vars, pipe_vars, gw_vars>>

NextLinks == CallFindInternalLinks \/ Revalidate

SpecLinks == InitLinks /\ [][NextLinks]_vars

---------------------------------------------------------------------------
(* Claims about the link validator *)

LinkReturned == link_pc \in {"returned", "revalidated"}

\* the candidate a returned link was parsed as
CandidateOf(link) == response.links[link.id]

\* C1: every link returned by find_internal_links has a url that, once its
\* surrounding whitespace is trimmed, is an element of sitemap_urls.
C1_ReturnedUrlsInSitemap ==
    LinkReturned =>
        \A i \in 1..Len(valid_links) :
            /\ valid_links[i].t = "str"
            /\ strip(valid_links[i].url) \in SeqRange(sitemap_urls)

\* a call returned a link whose URL the validator rewrote, next to a
\* candidate it dropped or another link it kept
C1_Witness ==
    /\ link_pc = "returned"
    /\ \E i \in 1..Len(valid_links) :
          /\ valid_links[i].url # CandidateOf(valid_links[i]).url
          /\ strip(CandidateOf(valid_links[i]).url) \notin SeqRange(sitemap_urls)

\* C4: find_internal_links never lets an exception reach its caller,
\* whatever the generator does and whatever the shape of the parsed JSON.
C4_NeverRaises == link_pc # "raised"

\* C5: the returned links are an order-preserving subsequence of the
\* candidates: each is one of the parsed candidate objects, no candidate is
\* returned twice, the relative order is kept, and so the output is no
\* longer than the candidate list.
C5_OrderPreservingSubsequence ==
    link_pc = "returned" =>
        /\ Len(valid_links) <= Len(response.links)
        /\ \A i \in 1..Len(valid_links) :
              /\ valid_links[i].id \in 1..Len(response.links)
              /\ valid_links[i] = raw_links[valid_links[i].id]
        /\ \A i, j \in 1..Len(valid_links) :
              i < j => valid_links[i].id < valid_links[j].id

\* two links were returned in order and a candidate was dropped
C5_Witness ==
    /\ link_pc = "returned"
    /\ Len(valid_links) >= 2
    /\ Len(valid_links) < Len(response.links)

IsExampleCall ==
    /\ SeqRange(sitemap_urls) = ExampleTrusted
    /\ response.kind = "obj"
    /\ Urls(response.links) = ExampleCandidates

\* C6: with the trusted URLs {".../a/b/c/", ".../a/b/d"} and the candidates
\* ".../a/b/c", ".../a/b/d/", ".../nope", exactly two links are returned,
\* with the trusted forms ".../a/b/c/" then ".../a/b/d".
C6_WorkedExample ==
    (link_pc = "returned" /\ IsExampleCall) =>
        Urls(valid_links) = <<UrlCSlash, UrlD>>

\* the example call has returned
C6_Witness ==
    /\ link_pc = "returned"
    /\ IsExampleCall
    /\ Len(valid_links) = 2
    /\ raw_links[3].url = UrlNope

\* C7: validating the returned links again against the same sitemap_urls
\* returns the same sequence of links with the same URLs.
C7_Idempotent ==
    link_pc = "revalidated" =>
        /\ Len(valid_links) = Len(prev_links)
        /\ Urls(valid_links) = Urls(prev_links)

---------------------------------------------------------------------------
(* serp_analyzer.py: the acquisition cascade *)

(* env.google = [exc, status, blocked, entries]                            *)
(*   exc      the request (or the HTML parser) raises inside the try block *)
(*   status   resp.status_code                                             *)
(*   blocked  _is_blocked(resp.text)                                       *)
(*   entries  number of results _parse_google keeps                        *)
(* env.ddg = [exc, status, entries], likewise                              *)
(* env.failed_pages: result ranks whose page scrape_page_text cannot read  *)
(* env.gemini = [kind, err, n]: kind "absent" (gemini_model is None),      *)
(*   "raises" (generate_content raises err), "no_json", "bad_json",        *)
(*   "array" (top-level JSON array), "ok" (an object with n competitors)   *)

Call(op, arg) == [op |-> op, arg |-> arg]

\* scrape_page_text(url, max_chars): "" on any failure
scrape_page_text(failed_pages, rank) ==
    IF rank \in failed_pages THEN "" ELSE "page text"

\* the loop "for i, r in enumerate(results[:num_results])":
\* a delay and one page fetch per kept result, in rank order
FetchCalls(k) ==
    [j \in 1..(2 * k) |->
        IF j % 2 = 1 THEN Call("random_delay", (j + 1) \div 2)
                     ELSE Call("page_fetch", j \div 2)]

Fetched(failed_pages, k) ==
    [i \in 1..k |-> [rank |-> i, content |-> scrape_page_text(failed_pages, i)]]

\* as scrape_google_serp, without the test of the status and of the block
\* phrases (a mutation)
scrape_google_serp_ignoreBlock(g, failed_pages, num) ==
    LET search == <<Call("google_search", num)>>
        k      == IF g.entries < num THEN g.entries ELSE num
    IN  IF g.exc THEN [results |-> <<>>, calls |-> search]
        ELSE [results |-> Fetched(failed_pages, k),
              calls   |-> search \o FetchCalls(k)]

scrape_google_serp(g, failed_pages, num) ==
    LET search == <<Call("google_search", num)>>
        k      == IF g.entries < num THEN g.entries ELSE num
    IN  IF g.exc THEN [results |-> <<>>, calls |-> search]
        ELSE IF g.status # 200 \/ g.blocked
             THEN [results |-> <<>>, calls |-> search]
        ELSE [results |-> Fetched(failed_pages, k),
              calls   |-> search \o FetchCalls(k)]

\* as _scrape_duckduckgo, fetching every result of the page (a mutation)
_scrape_duckduckgo_noCap(d, failed_pages, num) ==
    LET search == <<Call("ddg_search", num)>>
        k      == d.entries
    IN  IF d.exc THEN [results |-> <<>>, calls |-> search]
        ELSE IF d.status # 200
             THEN [results |-> <<>>, calls |-> search]
        ELSE [results |-> Fetched(failed_pages, k),
              calls   |-> search \o FetchCalls(k)]

_scrape_duckduckgo(d, failed_pages, num) ==
    LET search == <<Call("ddg_search", num)>>
        k      == IF d.entries < num THEN d.entries ELSE num
    IN  IF d.exc THEN [results |-> <<>>, calls |-> search]
        ELSE IF d.status # 200
             THEN [results |-> <<>>, calls |-> search]
        ELSE [results |-> Fetched(failed_pages, k),
              calls   |-> search \o FetchCalls(k)]

\* the lines _gemini_competitor_analysis builds from the parsed competitors
RECURSIVE CompetitorLines(_)
CompetitorLines(n) ==
    IF n = 0 THEN <<>>
    ELSE CompetitorLines(n - 1) \o <<"### Concurrent ", ToString(n), " (IA): ", "Domaine : ", "">>

\* (the source text has a leading emoji and a long dash, written here in ASCII)
GeminiHeader == "[Analyse générée par Gemini IA - scraping web bloqué]\n"

\* _gemini_competitor_analysis: everything is inside try/except Exception
_gemini_competitor_analysis_narrowExcept(gm) ==
    CASE gm.kind = "raises"   -> [status |-> "raised", text |-> <<>>]
      [] gm.kind = "no_json"  ->
            [status |-> "returned", text |-> <<"Analyse Gemini indisponible. Réponse : ", gm.err>>]
      [] gm.kind = "bad_json" ->
            [status |-> "returned", text |-> <<"Analyse Gemini échouée : ", "JSONDecodeError">>]
      [] gm.kind = "array"    -> [status |-> "raised", text |-> <<>>]
      [] gm.kind = "ok"       ->
            [status |-> "returned", text |-> <<GeminiHeader>> \o CompetitorLines(gm.n)]

_gemini_competitor_analysis(gm) ==
    CASE gm.kind = "raises"   ->
            [status |-> "returned", text |-> <<"Analyse Gemini échouée : ", gm.err>>]
      [] gm.kind = "no_json"  ->
            [status |-> "returned", text |-> <<"Analyse Gemini indisponible. Réponse : ", gm.err>>]
      [] gm.kind = "bad_json" ->
            [status |-> "returned", text |-> <<"Analyse Gemini échouée : ", "JSONDecodeError">>]
      \* data.get on a list: AttributeError, caught by except Exception
      [] gm.kind = "array"    ->
            [status |-> "returned",
             text |-> <<"Analyse Gemini échouée : ", "'list' object has no attribute 'get'">>]
      [] gm.kind = "ok"       ->
            [status |-> "returned", text |-> <<GeminiHeader>> \o CompetitorLines(gm.n)]

NoDataScrapingBlocked == <<"Aucune donnée concurrente disponible (scraping bloqué).">>

get_competitor_data_noStop(e, num) ==
    LET g  == scrape_google_serp(e.google, e.failed_pages, num)
        d  == _scrape_duckduckgo(e.ddg, e.failed_pages, num)
        ai == _gemini_competitor_analysis(e.gemini)
    IN  IF g.results # <<>>
        THEN [status |-> "returned", results |-> g.results, source |-> <<"google">>,
              calls |-> g.calls \o d.calls]
        ELSE IF d.results # <<>>
        THEN [status |-> "returned", results |-> d.results, source |-> <<"duckduckgo">>,
              calls |-> g.calls \o d.calls \o <<Call("gemini", num)>>]
        ELSE IF e.gemini.kind # "absent"
        THEN [status |-> ai.status, results |-> <<>>, source |-> ai.text,
              calls |-> g.calls \o d.calls \o <<Call("gemini", num)>>]
        ELSE [status |-> "returned", results |-> <<>>, source |-> NoDataScrapingBlocked,
              calls |-> g.calls \o d.calls]

get_competitor_data_swappedTag(e, num) ==
    LET g  == scrape_google_serp(e.google, e.failed_pages, num)
        d  == _scrape_duckduckgo(e.ddg, e.failed_pages, num)
        ai == _gemini_competitor_analysis(e.gemini)
    IN  IF g.results # <<>>
        THEN [status |-> "returned", results |-> g.results, source |-> <<"duckduckgo">>,
              calls |-> g.calls]
        ELSE IF d.results # <<>>
        THEN [status |-> "returned", results |-> d.results, source |-> <<"google">>,
              calls |-> g.calls \o d.calls]
        ELSE IF e.gemini.kind # "absent"
        THEN [status |-> ai.status, results |-> <<>>, source |-> ai.text,
              calls |-> g.calls \o d.calls \o <<Call("gemini", num)>>]
        ELSE [status |-> "returned", results |-> <<>>, source |-> NoDataScrapingBlocked,
              calls |-> g.calls \o d.calls]

get_competitor_data(e, num) ==
    LET g  == scrape_google_serp(e.google, e.failed_pages, num)
        d  == _scrape_duckduckgo(e.ddg, e.failed_pages, num)
        ai == _gemini_competitor_analysis(e.gemini)
    IN  \* 1. Google
        IF g.results # <<>>
        THEN [status |-> "returned", results |-> g.results, source |-> <<"google">>,
              calls |-> g.calls]
        \* 2. DuckDuckGo
        ELSE IF d.results # <<>>
        THEN [status |-> "returned", results |-> d.results, source |-> <<"duckduckgo">>,
              calls |-> g.calls \o d.calls]
        \* 3. Gemini fallback
        ELSE IF e.gemini.kind # "absent"
        THEN [status |-> ai.status, results |-> <<>>, source |-> ai.text,
              calls |-> g.calls \o d.calls \o <<Call("gemini", num)>>]
        ELSE [status |-> "returned", results |-> <<>>, source |-> NoDataScrapingBlocked,
              calls |-> g.calls \o d.calls]

NoData == <<"Aucune donnée concurrente disponible.">>

RECURSIVE SummaryBlocks(_, _)
SummaryBlocks(rs, i) ==
    IF i > Len(rs) THEN <<>>
    ELSE <<"### Concurrent ", ToString(i), "URL : ", ToString(rs[i].rank)>>
         \o (IF rs[i].content # "" THEN <<"Contenu page (extrait) :", rs[i].content>> ELSE <<>>)
         \o (IF i < Len(rs) THEN <<"\n\n">> ELSE <<>>)
         \o SummaryBlocks(rs, i + 1)

build_competitor_summary_emptyText(rs) ==
    IF rs = <<>> THEN <<>> ELSE SummaryBlocks(rs, 1)

build_competitor_summary(rs) ==
    IF rs = <<>> THEN NoData ELSE SummaryBlocks(rs, 1)

---------------------------------------------------------------------------
(* Inputs and specification of the cascade *)

GoogleBehaviours ==
    [exc : BOOLEAN, status : {200, 429}, blocked : BOOLEAN, entries : 0..MaxEntries]

DdgBehaviours ==
    [exc : BOOLEAN, status : {200, 403}, entries : 0..MaxEntries]

GeminiBehaviours ==
    {[kind |-> "absent", err |-> "", n |-> 0]}
    \cup {[kind |-> "raises", err |-> x, n |-> 0] : x \in {"Quota Gemini épuisé", "timeout"}}
    \cup {[kind |-> "no_json", err |-> x, n |-> 0] : x \in {"", "Je ne peux pas"}}
    \cup {[kind |-> k, err |-> "", n |-> 0] : k \in {"bad_json", "array"}}
    \cup {[kind |-> "ok", err |-> "", n |-> c] : c \in 0..1}

Worlds ==
    [google : GoogleBehaviours, ddg : DdgBehaviours,
     failed_pages : SUBSET (1..MaxEntries), gemini : GeminiBehaviours]

IdleLinks ==
    /\ sitemap_urls = <<>>
    /\ response = [kind |-> "none", links |-> <<>>]
    /\ raw_links = <<>>
    /\ valid_links = <<>>
    /\ prev_links = <<>>
    /\ link_pc = "ready"

InitCascade ==
    /\ IdleAux
    /\ IdleGemini
    /\ IdleLinks
    /\ env \in Worlds
    /\ calls = <<>>
    /\ IdleCascade
    /\ IdlePipeline

CallGetCompetitorData ==
    /\ casc_pc = "ready"
    /\ \E num \in 0..MaxNum :
         \E out \in {get_competitor_data(env, num)} :
             /\ num_results' = num
             /\ results' = out.results
             /\ source' = out.source
             /\ calls' = calls \o out.calls
             /\ casc_pc' = out.status
    /\ UNCHANGED <<aux_vars, link_vars, env, pipe_vars, gw_vars>>

NextCascade == CallGetCompetitorData

SpecCascade == InitCascade /\ [][NextCascade]_vars

---------------------------------------------------------------------------
(* Claims about the cascade *)

StrategyOps == {"google_search", "ddg_search", "gemini"}

IsStrategyCall(c) == c.op \in StrategyOps

\* the strategies invoked so far, in order
Strategies == LET cs == SelectSeq(calls, IsStrategyCall)
              IN  [i \in 1..Len(cs) |-> cs[i].op]

GoogleRecords(num) == scrape_google_serp(env.google, env.failed_pages, num).results
DdgRecords(num)    == _scrape_duckduckgo(env.ddg, env.failed_pages, num).results

\* C2: the strategies are invoked in the order Google, DuckDuckGo, model,
\* each at most once, and a strategy is invoked only if every earlier one
\* returned zero records.
C2_OrderedStopOnFirstSuccess ==
    casc_pc # "ready" =>
        /\ Strategies \in {<<"google_search">>,
                           <<"google_search", "ddg_search">>,
                           <<"google_search", "ddg_search", "gemini">>}
        /\ Len(Strategies) >= 2 => GoogleRecords(num_results) = <<>>
        /\ Len(Strategies) = 3 => DdgRecords(num_results) = <<>>
        /\ GoogleRecords(num_results) # <<>> => Strategies = <<"google_search">>

\* DuckDuckGo produced the records while a model was available and not called
C2_Witness ==
    /\ casc_pc = "returned"
    /\ source = <<"duckduckgo">>
    /\ results # <<>>
    /\ env.gemini.kind = "ok"
    /\ Strategies = <<"google_search", "ddg_search">>

GeminiFails(gm) == gm.kind \in {"absent", "raises", "no_json", "bad_json", "array"}

AllStrategiesFail(num) ==
    /\ GoogleRecords(num) = <<>>
    /\ DdgRecords(num) = <<>>
    /\ GeminiFails(env.gemini)

\* C3: get_competitor_data never raises; it returns a (records, provenance)
\* pair, and the records are empty when all three strategies fail.
C3_NeverRaises ==
    /\ casc_pc # "raised"
    /\ casc_pc = "returned" =>
          /\ source # <<>>
          /\ AllStrategiesFail(num_results) => results = <<>>

\* both scrapes raised and the model answered with JSON of the wrong shape
C3_Witness ==
    /\ casc_pc = "returned"
    /\ env.google.exc
    /\ env.ddg.exc
    /\ env.gemini.kind = "array"
    /\ results = <<>>

---------------------------------------------------------------------------
(* app.py: the pipeline driver, from the generate button to the saved article *)

\* "if num_serp_results > 0:"
SerpEnabled_always(n) == n >= 0

SerpEnabled(n) == n > 0

\* the texts of the two RuntimeErrors of generate_content
QuotaMessage     == "Quota Gemini épuisé (erreur 429)."
ExhaustedMessage == "Aucun modèle Gemini n'a pu répondre."

\* str(e) of an exception the client raises and generate_content re-raises:
\* any text, the empty one included
OtherMessages == {"", "timed out"}

\* What one call of generate_content gives a stage: one of its three ways of
\* raising, or a text with no JSON in it, with JSON that does not parse, or
\* with JSON of the expected shape.
GenAnswers ==
    {[kind |-> "raise", what |-> "quota", msg |-> QuotaMessage],
     [kind |-> "raise", what |-> "exhausted", msg |-> ExhaustedMessage]}
    \cup {[kind |-> "raise", what |-> "other", msg |-> m] : m \in OtherMessages}
    \cup {[kind |-> "text", what |-> w, msg |-> ""] : w \in {"no_json", "bad_json", "json"}}

Raise(m)  == [status |-> "raise", value |-> "None", msg |-> m]
Return(v) == [status |-> "ok", value |-> v, msg |-> ""]

\* str(e) of the AttributeError and TypeError a None artifact gives
NoneHasNoGet      == "'NoneType' object has no attribute 'get'"
NoneNotSubscript  == "'NoneType' object is not subscriptable"
ListHasNoGet      == "'list' object has no attribute 'get'"

find_best_keyword_default(a) ==
    IF a.kind = "raise" THEN Raise(a.msg)
    ELSE IF a.what = "json" THEN Return("parsed")
    ELSE Return("fallback")

\* pepite_finder.find_best_keyword, from the generator call on: json.loads is
\* not guarded, so its JSONDecodeError leaves the function as it is
find_best_keyword(a) ==
    IF a.kind = "raise" THEN Raise(a.msg)
    ELSE IF a.what = "json" THEN Return("parsed")
    ELSE IF a.what = "bad_json" THEN Raise("Expecting value: line 1 column 2 (char 1)")
    ELSE Raise("Gemini n'a pas retourné un JSON valide pour la sélection du mot-clé.")

\* insight_miner.generate_insights: six empty lists when the JSON is missing
\* or does not parse
generate_insights(a) ==
    IF a.kind = "raise" THEN Raise(a.msg)
    ELSE IF a.what = "json" THEN Return("parsed")
    ELSE Return("fallback")

\* semantic_architect.build_brief
build_brief(a) ==
    IF a.kind = "raise" THEN Raise(a.msg)
    ELSE IF a.what = "json" THEN Return("parsed")
    ELSE IF a.what = "bad_json" THEN Raise("JSON invalide dans la réponse Gemini (brief)")
    ELSE Raise("Gemini n'a pas retourné de JSON pour le brief.")

\* seo_calculator.calculate_word_budget: brief.get(...) comes before the
\* generator call; _fallback_budget when the JSON is missing or does not parse
calculate_word_budget(brief, a) ==
    IF brief = "None" THEN Raise(NoneHasNoGet)
    ELSE IF a.kind = "raise" THEN Raise(a.msg)
    ELSE IF a.what = "json" THEN Return("parsed")
    ELSE Return("fallback")

\* redacteur.write_article: keyword_data.get, word_budget.get and brief.get
\* come before the Claude call, whose exception is not caught
write_article(s, claude) ==
    IF s.keyword_data = "None" \/ s.word_budget = "None" \/ s.brief = "None"
    THEN Raise(NoneHasNoGet)
    ELSE IF claude = "raise" THEN Raise("Connection error.")
    ELSE Return("article")

\* the sitemap of step 1: none found, or the two URLs of the worked example
PipelineSitemaps == {<<>>, <<UrlCSlash, UrlD>>}

\* the response find_internal_links works on, for an answer of the generator
LinkResponses(a) ==
    IF a.kind = "raise" THEN {[kind |-> "gen_error", links |-> <<>>]}
    ELSE IF a.what # "json" THEN {[kind |-> a.what, links |-> <<>>]}
    ELSE {[kind |-> "array", links |-> <<>>],
          [kind |-> "obj",
           links |-> Parse([i \in 1..3 |-> [t |-> "str", url |-> ExampleCandidates[i]]])]}

\* the session of a browser tab in which an earlier run went to its end
StaleSession ==
    [keyword_data |-> "old", insights |-> "old", brief |-> "old",
     internal_links |-> "old", word_budget |-> "old", result |-> "old"]

\* the pipeline consults Google and the competitor pages only
PipelineWorlds ==
    {w \in Worlds : /\ w.ddg = [exc |-> FALSE, status |-> 200, entries |-> 0]
                    /\ w.gemini = [kind |-> "absent", err |-> "", n |-> 0]}

InitPipeline ==
    /\ IdleAux
    /\ IdleGemini
    /\ IdleLinks
    /\ IdleCascade
    /\ env \in PipelineWorlds
    /\ calls = <<>>
    /\ pipe_pc = "idle"
    /\ running = FALSE
    /\ num_serp_results \in 0..MaxNum
    /\ serp_results = <<>>
    /\ competitor_summary = <<>>
    /\ brief_called = FALSE
    /\ brief_summary = <<>>
    /\ pipeline_error = ""
    /\ \E stale \in BOOLEAN :
          /\ session = IF stale THEN StaleSession ELSE FreshSession
          /\ history = IF stale THEN 1 ELSE 0
    /\ stage_status = <<>>
    /\ progress = <<>>
    /\ last_answer = NoAnswer
    /\ files = <<>>

\* "with st.status(...)": the widget of a new stage
Opened(st) == Append(st, "running")

\* s.update(state=...) on the widget of the current stage
Closed(st, how) == [st EXCEPT ![Len(st)] = how]

\* the except branch of a stage, then "if pipeline_error: st.stop()": the
\* test is on the text of the exception
Stop_keepRunning(st, msg, next) ==
    /\ stage_status' = Closed(st, "error")
    /\ pipeline_error' = msg
    /\ pipe_pc' = IF msg # "" THEN "stopped" ELSE next
    /\ UNCHANGED running

Stop(st, msg, next) ==
    /\ stage_status' = Closed(st, "error")
    /\ pipeline_error' = msg
    /\ running' = FALSE
    /\ pipe_pc' = IF msg # "" THEN "stopped" ELSE next

\* the end of a try block that did not raise
Complete(st, next) ==
    /\ stage_status' = Closed(st, "complete")
    /\ pipe_pc' = next
    /\ UNCHANGED <<running, pipeline_error>>

Answer(step, a) == [step |-> step, kind |-> a.kind, what |-> a.what, msg |-> a.msg]

\* generate button: running = True, result = None, then the API clients
ClickGenerate ==
    /\ pipe_pc = "idle"
    /\ session' = [session EXCEPT !.result = "None"]
    /\ \E ok \in BOOLEAN :
         IF ok THEN /\ running' = TRUE
                    /\ pipe_pc' = "step1"
               ELSE /\ running' = FALSE
                    /\ pipe_pc' = "stopped"
    /\ UNCHANGED <<aux_vars, gw_vars, link_vars, env, calls, casc_vars, num_serp_results, serp_results,
                   competitor_summary, brief_called, brief_summary, pipeline_error,
                   stage_status, progress, last_answer, files, history>>

\* step 1: CSV, sitemap and keyword selection, inside one try block
Step1 ==
    /\ pipe_pc = "step1"
    /\ progress' = Append(progress, "step1")
    /\ \E csv_ok \in BOOLEAN, sm \in PipelineSitemaps, a \in GenAnswers :
         IF ~csv_ok
         THEN /\ Stop(Opened(stage_status),
                      "Impossible de lire le fichier CSV. Vérifie l'encodage.", "step2a")
              /\ UNCHANGED <<sitemap_urls, calls, last_answer, session>>
         ELSE \E out \in {find_best_keyword(a)} :
                /\ sitemap_urls' = sm
                /\ calls' = Append(calls, Call("find_best_keyword", 0))
                /\ last_answer' = Answer("step1", a)
                /\ IF out.status = "ok"
                   THEN /\ session' = [session EXCEPT !.keyword_data = out.value]
                        /\ Complete(Opened(stage_status), "step2a")
                   ELSE /\ Stop(Opened(stage_status), out.msg, "step2a")
                        /\ UNCHANGED session
    /\ UNCHANGED <<aux_vars, gw_vars, response, raw_links, valid_links, prev_links, link_pc, env,
                   casc_vars, num_serp_results, serp_results, competitor_summary,
                   brief_called, brief_summary, files, history>>

\* step 2 opens with keyword_data["keyword"]; 2a is the SERP scrape
Step2a ==
    /\ pipe_pc = "step2a"
    /\ IF session.keyword_data = "None"
       THEN /\ Stop(Opened(stage_status), NoneNotSubscript, "step3")
            /\ UNCHANGED <<progress, serp_results, competitor_summary, calls>>
       ELSE /\ progress' = Append(progress, "step2a")
            /\ stage_status' = Opened(stage_status)
            /\ pipe_pc' = "step2b"
            /\ UNCHANGED <<running, pipeline_error>>
            /\ IF SerpEnabled(num_serp_results)
               THEN \E g \in {scrape_google_serp(env.google, env.failed_pages,
                                                 num_serp_results)} :
                        /\ serp_results' = g.results
                        /\ competitor_summary' = build_competitor_summary(g.results)
                        /\ calls' = calls \o g.calls
               ELSE /\ competitor_summary' = <<>>
                    /\ UNCHANGED <<serp_results, calls>>
    /\ UNCHANGED <<aux_vars, gw_vars, link_vars, env, casc_vars, num_serp_results,
                   brief_called, brief_summary, session, last_answer, files, history>>

\* step 2b: generate_insights (a generator error propagates to the except)
Step2b ==
    /\ pipe_pc = "step2b"
    /\ progress' = Append(progress, "step2b")
    /\ calls' = Append(calls, Call("generate_insights", 0))
    /\ \E a \in GenAnswers :
         \E out \in {generate_insights(a)} :
            /\ last_answer' = Answer("step2b", a)
            /\ IF out.status = "ok"
               THEN /\ session' = [session EXCEPT !.insights = out.value]
                    /\ pipe_pc' = "step2c"
                    /\ UNCHANGED <<stage_status, running, pipeline_error>>
               ELSE /\ Stop(stage_status, out.msg, "step3")
                    /\ UNCHANGED session
    /\ UNCHANGED <<aux_vars, gw_vars, link_vars, env, casc_vars, num_serp_results, serp_results,
                   competitor_summary, brief_called, brief_summary, files, history>>

\* step 2c: build_brief(keyword_data, competitor_summary, insights, ...)
Step2c ==
    /\ pipe_pc = "step2c"
    /\ progress' = Append(progress, "step2c")
    /\ calls' = Append(calls, Call("build_brief", 0))
    /\ brief_called' = TRUE
    /\ brief_summary' = competitor_summary
    /\ \E a \in GenAnswers :
         \E out \in {build_brief(a)} :
            /\ last_answer' = Answer("step2c", a)
            /\ IF out.status = "ok"
               THEN /\ session' = [session EXCEPT !.brief = out.value]
                    /\ pipe_pc' = "step2d"
                    /\ UNCHANGED <<stage_status, running, pipeline_error>>
               ELSE /\ Stop(stage_status, out.msg, "step3")
                    /\ UNCHANGED session
    /\ UNCHANGED <<aux_vars, gw_vars, link_vars, env, casc_vars, num_serp_results, serp_results,
                   competitor_summary, files, history>>

\* step 2d: find_internal_links, which makes no generator call without a
\* sitemap; the end of the try block of step 2
Step2d ==
    /\ pipe_pc = "step2d"
    /\ progress' = Append(progress, "step2d")
    /\ calls' = Append(calls, Call("find_internal_links", 0))
    /\ \E a \in GenAnswers :
         \E resp \in LinkResponses(a) :
            \E out \in {find_internal_links(sitemap_urls, resp)} :
               /\ last_answer' = IF sitemap_urls = <<>> THEN last_answer
                                 ELSE Answer("step2d", a)
               /\ IF out.status = "returned"
                  THEN /\ valid_links' = out.valid_links
                       /\ session' = [session EXCEPT !.internal_links = "new"]
                       /\ Complete(stage_status, "step3")
                  ELSE /\ Stop(stage_status, ListHasNoGet, "step3")
                       /\ UNCHANGED <<valid_links, session>>
    /\ UNCHANGED <<aux_vars, gw_vars, sitemap_urls, response, raw_links, prev_links, link_pc, env,
                   casc_vars, num_serp_results, serp_results, competitor_summary,
                   brief_called, brief_summary, files, history>>

\* step 3: calculate_word_budget
Step3 ==
    /\ pipe_pc = "step3"
    /\ progress' = Append(progress, "step3")
    /\ \E a \in GenAnswers :
         \E out \in {calculate_word_budget(session.brief, a)} :
            /\ IF session.brief = "None"
               THEN UNCHANGED <<calls, last_answer>>
               ELSE /\ calls' = Append(calls, Call("calculate_word_budget", 0))
                    /\ last_answer' = Answer("step3", a)
            /\ IF out.status = "ok"
               THEN /\ session' = [session EXCEPT !.word_budget = out.value]
                    /\ Complete(Opened(stage_status), "step4")
               ELSE /\ Stop(Opened(stage_status), out.msg, "step4")
                    /\ UNCHANGED session
    /\ UNCHANGED <<aux_vars, gw_vars, link_vars, env, casc_vars, num_serp_results, serp_results,
                   competitor_summary, brief_called, brief_summary, files, history>>

\* step 4: write_article, result into the session, the two files, the
\* history entry, all in one try block; then the end of the script
Step4 ==
    /\ pipe_pc = "step4"
    /\ progress' = Append(progress, "step4")
    /\ calls' = Append(calls, Call("write_article", 0))
    /\ \E claude \in {"ok", "raise"}, disk \in {"ok", "md_fails", "html_fails"} :
         \E out \in {write_article(session, claude)} :
            IF out.status = "raise"
            THEN /\ Stop(Opened(stage_status), out.msg, "done")
                 /\ UNCHANGED <<session, files, history>>
            ELSE /\ session' = [session EXCEPT !.result = out.value]
                 /\ IF disk = "ok"
                    THEN /\ files' = <<"md", "html">>
                         /\ history' = history + 1
                         /\ stage_status' = Closed(Opened(stage_status), "complete")
                         /\ running' = FALSE
                         /\ pipe_pc' = "done"
                         /\ UNCHANGED pipeline_error
                    ELSE /\ files' = IF disk = "html_fails" THEN <<"md">> ELSE <<>>
                         /\ Stop(Opened(stage_status),
                                 "[Errno 28] No space left on device", "done")
                         /\ UNCHANGED history
    /\ UNCHANGED <<aux_vars, gw_vars, link_vars, env, casc_vars, num_serp_results, serp_results,
                   competitor_summary, brief_called, brief_summary, last_answer>>

NextPipeline ==
    ClickGenerate \/ Step1 \/ Step2a \/ Step2b \/ Step2c \/ Step2d \/ Step3 \/ Step4

SpecPipeline == InitPipeline /\ [][NextPipeline]_vars

---------------------------------------------------------------------------
(* Claims about the pipeline *)

AcquisitionOps == {"google_search", "ddg_search", "page_fetch", "gemini"}

\* C8: with the competitor count at 0 the acquisition is skipped before any
\* network call: no search request, no page fetch, no model synthesis call.
C8_ZeroCountNoAcquisitionCall ==
    num_serp_results = 0 =>
        \A i \in 1..Len(calls) : calls[i].op \notin AcquisitionOps

\* a run with the count at 0 went through step 2a and on to the brief
C8_Witness ==
    /\ num_serp_results = 0
    /\ pipe_pc = "step2d"
    /\ brief_called
    /\ competitor_summary = <<>>

\* the world of the run with DuckDuckGo behaving as d and the analysis model as gm
World(d, gm) == [env EXCEPT !.ddg = d, !.gemini = gm]

\* what the acquisition cascade yields in that world
Acquired(d, gm) == get_competitor_data(World(d, gm), num_serp_results)

\* C9: when acquisition yields no records together with a non-empty
\* provenance text from the model synthesis, the competitor summary given to
\* build_brief is that provenance text verbatim.
C9_ProvenanceTextIsSummary ==
    (brief_called /\ SerpEnabled(num_serp_results)) =>
        \A d \in DdgBehaviours, gm \in GeminiBehaviours :
            (/\ gm.kind # "absent"
             /\ Acquired(d, gm).results = <<>>
             /\ Acquired(d, gm).source # <<>>)
            => brief_summary = Acquired(d, gm).source

\* C10: when every acquisition strategy fails (Google in the run, DuckDuckGo
\* and the analysis model in some way they can), the competitor summary of
\* the run is the one "no competitor data" message, and step 2a does not
\* raise.
C10_AllFailGivesNoDataMessage ==
    (/\ SerpEnabled(num_serp_results)
     /\ GoogleRecords(num_serp_results) = <<>>
     /\ \E d \in DdgBehaviours, gm \in GeminiBehaviours :
           /\ _scrape_duckduckgo(d, env.failed_pages, num_serp_results).results = <<>>
           /\ GeminiFails(gm))
    => /\ pipe_pc \in {"step2b", "step2c", "step2d"} => competitor_summary = NoData
       /\ brief_called => brief_summary = NoData
       /\ (progress # <<>> /\ progress[Len(progress)] = "step2a") => pipe_pc = "step2b"

\* Google was blocked although its page listed results, and the brief was
\* built with the no-data message
C10_Witness ==
    /\ num_serp_results > 0
    /\ env.google.blocked
    /\ env.google.entries > 0
    /\ brief_called
    /\ brief_summary = NoData
    /\ pipe_pc = "step2d"

---------------------------------------------------------------------------
(* More claims about the cascade *)

ScrapeTags == {<<"google">>, <<"duckduckgo">>}

\* C11: the provenance is "google" exactly when the returned records are the
\* Google scrape's, "duckduckgo" exactly when they are the DuckDuckGo
\* scrape's; otherwise the records are empty and the provenance is the text
\* of the model step or the fixed failure text; records are non-empty if and
\* only if the provenance is one of the two scrape tags.
C11_ProvenanceNamesStrategy ==
    casc_pc = "returned" =>
        /\ source = <<"google">> <=>
              /\ Strategies = <<"google_search">>
              /\ results = GoogleRecords(num_results)
              /\ results # <<>>
        /\ source = <<"duckduckgo">> <=>
              /\ Strategies = <<"google_search", "ddg_search">>
              /\ results = DdgRecords(num_results)
              /\ results # <<>>
        /\ results # <<>> <=> source \in ScrapeTags
        /\ source \notin ScrapeTags =>
              /\ results = <<>>
              /\ source = IF env.gemini.kind = "absent"
                          THEN NoDataScrapingBlocked
                          ELSE _gemini_competitor_analysis(env.gemini).text

\* the Google scrape produced the records although DuckDuckGo would have too
C11_Witness ==
    /\ casc_pc = "returned"
    /\ source = <<"google">>
    /\ Len(results) = 2
    /\ env.ddg.entries > 0 /\ ~env.ddg.exc /\ env.ddg.status = 200

---------------------------------------------------------------------------
(* GeminiWrapper.generate_content (modules/utils.py): model fallback and retries *)

MaxModels == 2

_retries == 2

\* the head of GEMINI_PREFERRED_ORDER
ModelNames == {"gemini-2.5-flash", "gemini-2.5-pro", "gemini-2.0-flash"}

Prompts == {"prompt-a", "prompt-b"}

\* the substrings of str(e).lower() the handler looks for
NotFoundMarkers == {"404", "not_found", "not found", "403", "permission"}
QuotaMarkers    == {"429", "resource_exhausted", "quota"}
OverloadMarkers == {"503", "unavailable", "overloaded", "temporarily"}

\* An error is the set of markers its lower-cased text contains; the empty
\* set is an error with none of them.
Errors == SUBSET {"404", "429", "503"}

\* the if-chain with the quota test first (a mutation)
ErrorKind_quotaFirst(e) ==
    IF e \cap QuotaMarkers # {} THEN "quota"
    ELSE IF e \cap NotFoundMarkers # {} THEN "not_found"
    ELSE IF e \cap OverloadMarkers # {} THEN "overload"
    ELSE "other"

\* the if-chain of the except block, in its order
ErrorKind(e) ==
    IF e \cap NotFoundMarkers # {} THEN "not_found"
    ELSE IF e \cap QuotaMarkers # {} THEN "quota"
    ELSE IF e \cap OverloadMarkers # {} THEN "overload"
    ELSE "other"

\* candidates = [self._model_name] + [m for m in self._available_models if m != self._model_name]
candidates(w) ==
    <<w.model_name>> \o SelectSeq(w.available, LAMBDA m : m # w.model_name)

\* wait = 5 * (attempt + 1)
wait(attempt) == 5 * (attempt + 1)

ModelCall(w, st, ok, e) ==
    [op |-> "call", model |-> candidates(w)[st.model], prompt |-> w.prompt,
     attempt |-> st.attempt, ok |-> ok, err |-> e, secs |-> 0]

Sleep(w, st) ==
    [op |-> "sleep", model |-> candidates(w)[st.model], prompt |-> "",
     attempt |-> st.attempt, ok |-> FALSE, err |-> {}, secs |-> wait(st.attempt)]

\* `break` out of the retry loop: the next model of the outer loop, or the
\* RuntimeError after it
NextModel(w, st, e) ==
    IF st.model < Len(candidates(w))
    THEN [st EXCEPT !.model = st.model + 1, !.attempt = 0, !.last_error = <<e>>]
    ELSE [st EXCEPT !.last_error = <<e>>, !.pc = "raised", !.raise = "exhausted"]

Retry_extraAttempt(w, st, e) ==
    IF st.attempt < _retries + 1
    THEN [st EXCEPT !.attempt = st.attempt + 1, !.log = Append(st.log, Sleep(w, st))]
    ELSE NextModel(w, st, e)

\* the 503 branch: sleep and retry the same model, or give the model up
Retry(w, st, e) ==
    IF st.attempt < _retries
    THEN [st EXCEPT !.attempt = st.attempt + 1, !.log = Append(st.log, Sleep(w, st))]
    ELSE NextModel(w, st, e)

OnSuccess_keepGoing(w, st) ==
    IF st.model < Len(candidates(w))
    THEN [st EXCEPT !.model = st.model + 1, !.attempt = 0]
    ELSE [st EXCEPT !.pc = "returned"]

\* return response
OnSuccess(w, st) == [st EXCEPT !.pc = "returned"]

OnNotFound_retrySame(w, st, e) == Retry(w, st, e)

\* 404/403: last_error = e; break
OnNotFound(w, st, e) == NextModel(w, st, e)

OnQuota_nextModel(w, st, e) == NextModel(w, st, e)

\* 429: raise RuntimeError(...) from e
OnQuota(w, st, e) == [st EXCEPT !.pc = "raised", !.raise = "quota"]

OnOther_nextModel(w, st, e) == NextModel(w, st, e)

\* bare raise
OnOther(w, st, e) == [st EXCEPT !.pc = "raised", !.raise = "other"]

\* one pass of the body of the retry loop: the client call and what follows it
Attempt(w, st, ok, e) ==
    LET called == [st EXCEPT !.log = Append(st.log, ModelCall(w, st, ok, e))]
    IN  IF ok THEN OnSuccess(w, called)
        ELSE IF ErrorKind(e) = "not_found" THEN OnNotFound(w, called, e)
        ELSE IF ErrorKind(e) = "quota"     THEN OnQuota(w, called, e)
        ELSE IF ErrorKind(e) = "overload"  THEN Retry(w, called, e)
        ELSE OnOther(w, called, e)

IsDuplicateFree(q) == \A i, j \in 1..Len(q) : q[i] = q[j] => i = j

\* list_available_gemini_models returns each model name once
AvailableLists == {q \in SeqsUpTo(ModelNames, MaxModels) : IsDuplicateFree(q)}

Wrappers == [model_name : ModelNames, available : AvailableLists, prompt : Prompts]

InitGemini ==
    /\ IdleAux
    /\ IdleLinks
    /\ IdleWorld
    /\ IdleCascade
    /\ IdlePipeline
    /\ gw \in Wrappers
    /\ gw_model = 0
    /\ gw_attempt = 0
    /\ gw_log = <<>>
    /\ gw_last_error = <<>>
    /\ gw_pc = "idle"
    /\ gw_raise = ""

GwState ==
    [model |-> gw_model, attempt |-> gw_attempt, log |-> gw_log,
     last_error |-> gw_last_error, pc |-> gw_pc, raise |-> gw_raise]

GwSet(st) ==
    /\ gw_model' = st.model
    /\ gw_attempt' = st.attempt
    /\ gw_log' = st.log
    /\ gw_last_error' = st.last_error
    /\ gw_pc' = st.pc
    /\ gw_raise' = st.raise

\* entry of generate_content: the first candidate, attempt 0
CallGenerateContent ==
    /\ gw_pc = "idle"
    /\ GwSet([GwState EXCEPT !.model = 1, !.attempt = 0, !.pc = "trying"])
    /\ UNCHANGED <<aux_vars, gw, link_vars, env, calls, casc_vars, pipe_vars>>

\* the client answers
TrySucceeds ==
    /\ gw_pc = "trying"
    /\ \E st \in {Attempt(gw, GwState, TRUE, {})} : GwSet(st)
    /\ UNCHANGED <<aux_vars, gw, link_vars, env, calls, casc_vars, pipe_vars>>

\* the client raises
TryFails ==
    /\ gw_pc = "trying"
    /\ \E e \in Errors :
         \E st \in {Attempt(gw, GwState, FALSE, e)} : GwSet(st)
    /\ UNCHANGED <<aux_vars, gw, link_vars, env, calls, casc_vars, pipe_vars>>

NextGemini == CallGenerateContent \/ TrySucceeds \/ TryFails

SpecGemini == InitGemini /\ [][NextGemini]_vars

\* every client call and every sleep ends, so a started call keeps stepping
SpecGeminiLive == SpecGemini /\ WF_vars(NextGemini)

---------------------------------------------------------------------------
(* Claims about GeminiWrapper.generate_content *)

LogCalls == {i \in 1..Len(gw_log) : gw_log[i].op = "call"}

\* the calls that failed with an error of kind k
FailedCalls(k) ==
    {i \in LogCalls : ~gw_log[i].ok /\ ErrorKind(gw_log[i].err) = k}

\* position of model m in the candidate list
Pos(m) == CHOOSE k \in 1..Len(candidates(gw)) : candidates(gw)[k] = m

CallsTo(m) == {i \in LogCalls : gw_log[i].model = m}

\* what follows event i when the model of event i is given up: the next
\* event is a first call of the next candidate with the same prompt (or that
\* call is about to be made), and past the last candidate nothing follows
\* and the call has raised the all-models-failed error
MovesToNextModel(i) ==
    LET k == Pos(gw_log[i].model)
    IN  IF k < Len(candidates(gw))
        THEN IF i < Len(gw_log)
             THEN /\ gw_log[i + 1].op = "call"
                  /\ gw_log[i + 1].model = candidates(gw)[k + 1]
                  /\ gw_log[i + 1].prompt = gw_log[i].prompt
                  /\ gw_log[i + 1].attempt = 0
             ELSE /\ gw_pc = "trying"
                  /\ gw_model = k + 1
                  /\ gw_attempt = 0
        ELSE /\ i = Len(gw_log)
             /\ gw_pc = "raised"
             /\ gw_raise = "exhausted"

\* C12: after a call that failed with a not-found/permission error the same
\* model is never called again, and the next event is a call of the next
\* candidate (requested model first, then the available ones in order) with
\* the same prompt, with no sleep in between.
C12_NotFoundMovesOn ==
    \A i \in FailedCalls("not_found") :
        /\ \A j \in LogCalls : j > i => gw_log[j].model # gw_log[i].model
        /\ MovesToNextModel(i)
        /\ candidates(gw)[1] = gw.model_name

\* the requested model was not found and the second candidate answered
C12_Witness ==
    /\ gw_pc = "returned"
    /\ Len(gw_log) = 2
    /\ 1 \in FailedCalls("not_found")
    /\ gw_log[1].model = gw.model_name
    /\ gw_log[2].ok
    /\ gw_log[2].model = gw.available[1]

\* C13: a call that failed with a quota error is the last event of the log
\* and generate_content has raised the quota RuntimeError.
C13_QuotaRaisesAtOnce ==
    \A i \in FailedCalls("quota") :
        /\ i = Len(gw_log)
        /\ gw_pc = "raised"
        /\ gw_raise = "quota"

\* the quota error came from the first candidate while another one was left
C13_Witness ==
    /\ gw_pc = "raised"
    /\ gw_raise = "quota"
    /\ Len(gw_log) = 1
    /\ Len(candidates(gw)) > 1

\* C14: no model is called more than _retries + 1 times; every retry comes
\* right after a sleep of 5 * attempt seconds that follows an overload
\* failure of the same model; after the last allowed overload failure the
\* next candidate is tried, and past the last candidate the call has raised.
C14_OverloadBoundedRetries ==
    /\ \A m \in ModelNames : Cardinality(CallsTo(m)) <= _retries + 1
    /\ \A i \in LogCalls :
          gw_log[i].attempt > 0 =>
              /\ i > 2
              /\ gw_log[i - 1].op = "sleep"
              /\ gw_log[i - 1].secs = 5 * gw_log[i].attempt
              /\ gw_log[i - 1].model = gw_log[i].model
              /\ i - 2 \in FailedCalls("overload")
              /\ gw_log[i - 2].model = gw_log[i].model
              /\ gw_log[i - 2].attempt = gw_log[i].attempt - 1
    /\ \A i \in FailedCalls("overload") :
          IF gw_log[i].attempt < _retries
          THEN /\ i < Len(gw_log)
               /\ gw_log[i + 1].op = "sleep"
          ELSE MovesToNextModel(i)

\* three candidates, each overloaded on all of its three calls
C14_Witness ==
    /\ gw_pc = "raised"
    /\ gw_raise = "exhausted"
    /\ Len(candidates(gw)) = 3
    /\ Cardinality(FailedCalls("overload")) = 3 * (_retries + 1)

Finished == gw_pc \in {"returned", "raised"}

\* C15: every call of generate_content finishes, with at most
\* (_retries + 1) * (number of candidates) client calls, and a successful
\* client call is the last event and makes generate_content return.
C15_Terminates ==
    /\ <>[]Finished
    /\ [](Cardinality(LogCalls) <= (_retries + 1) * Len(candidates(gw)))
    /\ [](\A i \in LogCalls : gw_log[i].ok => i = Len(gw_log) /\ gw_pc = "returned")

\* the answer came on the last allowed call of the last of three candidates
C15_Witness ==
    /\ gw_pc = "returned"
    /\ Len(candidates(gw)) = 3
    /\ Cardinality(LogCalls) = 3 * (_retries + 1)

\* C16: a call that failed with an error of no known kind is the last event
\* of the log and generate_content has re-raised it.
C16_OtherPropagatesAtOnce ==
    \A i \in FailedCalls("other") :
        /\ i = Len(gw_log)
        /\ gw_pc = "raised"
        /\ gw_raise = "other"

\* the unknown error came on a retry, with another candidate left untried
C16_Witness ==
    /\ gw_pc = "raised"
    /\ gw_raise = "other"
    /\ gw_attempt = 1
    /\ gw_model < Len(candidates(gw))

---------------------------------------------------------------------------
(* Claims about the stages of a pipeline run *)

LastStep == IF progress = <<>> THEN "" ELSE progress[Len(progress)]

\* the order of the steps in app.py
StepOrder == <<"step1", "step2a", "step2b", "step2c", "step2d", "step3", "step4">>

RunEnded == pipe_pc \in {"stopped", "done"}

FailedStages == {k \in 1..Len(stage_status) : stage_status[k] = "error"}

\* C17: when the generator's last answer to a stage is a fatal error (quota,
\* or every candidate model exhausted), the run has stopped in that very
\* step with that error reported, the internal-link step included.
C17_FatalGeneratorErrorHalts ==
    (last_answer.kind = "raise" /\ last_answer.what \in {"quota", "exhausted"})
    => /\ pipe_pc = "stopped"
       /\ pipeline_error = last_answer.msg
       /\ LastStep = last_answer.step
       /\ stage_status[Len(stage_status)] = "error"

\* C18: the steps entered so far are a prefix of the fixed order, every
\* stage before the one last opened has completed, and a stage that failed
\* is the last one opened.
C18_StagesInOrderStopAtFailure ==
    /\ progress = SubSeq(StepOrder, 1, Len(progress))
    /\ \A k \in 1..Len(stage_status) - 1 : stage_status[k] = "complete"
    /\ \A k \in FailedStages : k = Len(stage_status)

\* C19: when a run has ended with a failed stage, no file has been written,
\* and the artifacts of the stages that completed are in the session.
C19_FailedRunWritesNoFile ==
    (RunEnded /\ FailedStages # {})
    => /\ files = <<>>
       /\ \A k \in 1..Len(stage_status) :
             stage_status[k] = "complete" =>
                 CASE k = 1 -> session.keyword_data # "None"
                   [] k = 2 -> session.brief # "None" /\ session.insights # "empty"
                   [] k = 3 -> session.word_budget # "None"
                   [] OTHER -> TRUE

\* C20: when the answer to keyword selection or to brief building has no
\* JSON, or JSON that does not parse, the run has stopped in that step with
\* an error, and neither artifact is ever a default value.
C20_NoJsonHaltsKeywordAndBrief ==
    /\ (/\ last_answer.step \in {"step1", "step2c"}
        /\ last_answer.kind = "text"
        /\ last_answer.what \in {"no_json", "bad_json"})
       => /\ pipe_pc = "stopped"
          /\ pipeline_error # ""
          /\ LastStep = last_answer.step
          /\ stage_status[Len(stage_status)] = "error"
          /\ last_answer.step = "step1" => session.keyword_data \in {"None", "old"}
          /\ last_answer.step = "step2c" => session.brief \in {"None", "old"}
    /\ session.keyword_data # "fallback"
    /\ session.brief # "fallback"

\* the keyword was selected, then the brief answer held JSON that does not parse
C20_Witness ==
    /\ last_answer.step = "step2c"
    /\ last_answer.what = "bad_json"
    /\ session.keyword_data = "parsed"
    /\ pipe_pc = "stopped"

---------------------------------------------------------------------------
(* insight_miner.generate_insights and seo_calculator.calculate_word_budget
   on a given answer of the generator *)

MaxSections == 3

MaxSubsections == 3

\* the values of the "Longueur cible" slider: 800 to 4000 by steps of 100
Targets == {800 + 100 * i : i \in 0..32}

FaqCounts == {0, 5}

\* a brief, as far as the budget goes: the number of subsections of each
\* section, and the number of FAQ questions
Briefs == [sections : SeqsUpTo(0..MaxSubsections, MaxSections), faq : FaqCounts]

\* int(target_words * 0.09) and the like: the float product truncates to
\* the integer quotient for every value of the slider
Share(target, pct) == (target * pct) \div 100

\* the budget of section i: 100 words for the H2 block and the rest split
\* over the subsections, 5 more words for each next one; all of it to the H2
\* block when there are no subsections
SectionBudget(k, per_section) ==
    IF k > 0
    THEN [h2_intro |-> 100,
          subsections |-> [j \in 1..k |-> ((per_section - 100) \div k) + (j - 1) * 5]]
    ELSE [h2_intro |-> per_section, subsections |-> <<>>]

_fallback_budget(brief, target_words) ==
    LET intro_words      == Share(target_words, 9)
        conclusion_words == Share(target_words, 6)
        faq_words        == Max({brief.faq * 70, Share(target_words, 10)})
        body_words       == target_words - intro_words - conclusion_words - faq_words
        n                == Len(brief.sections)
    IN  [intro |-> intro_words,
         sections |-> IF n = 0 THEN <<>>
                      ELSE [i \in 1..n |-> SectionBudget(brief.sections[i], body_words \div n)],
         faq |-> faq_words,
         conclusion |-> conclusion_words,
         total_calculated |-> target_words]

Raised(m) == [status |-> "raise", msg |-> m, insights |-> NoInsights, budget |-> NoBudget]

generate_insights_result_strict(a) ==
    IF a.kind = "raise" THEN Raised(a.msg)
    ELSE IF a.what = "json"
    THEN [status |-> "ok", msg |-> "", insights |-> a.insights, budget |-> NoBudget]
    ELSE Raised("Expecting value: line 1 column 2 (char 1)")

\* generate_insights with the value it returns: the parsed answer, or the
\* six empty lists
generate_insights_result(a) ==
    IF a.kind = "raise" THEN Raised(a.msg)
    ELSE IF a.what = "json"
    THEN [status |-> "ok", msg |-> "", insights |-> a.insights, budget |-> NoBudget]
    ELSE [status |-> "ok", msg |-> "", insights |-> NoInsights, budget |-> NoBudget]

\* calculate_word_budget with the value it returns: the parsed answer with
\* total_calculated patched in when missing, or the fallback budget
calculate_word_budget_result(brief, target_words, a) ==
    IF a.kind = "raise" THEN Raised(a.msg)
    ELSE IF a.what = "json"
    THEN [status |-> "ok", msg |-> "", insights |-> NoInsights,
          budget |-> IF a.has_total THEN a.budget
                     ELSE [a.budget EXCEPT !.total_calculated = target_words]]
    ELSE [status |-> "ok", msg |-> "", insights |-> NoInsights,
          budget |-> _fallback_budget(brief, target_words)]

SomeInsights == [NoInsights EXCEPT !.people_also_ask = <<"question">>]

\* budgets the generator can answer with: all words to the introduction, or
\* the figures of the example of the prompt
AnsweredBudgets(target_words) ==
    {[intro |-> target_words, sections |-> <<>>, faq |-> 0, conclusion |-> 0,
      total_calculated |-> target_words],
     [intro |-> 180, sections |-> <<>>, faq |-> 320, conclusion |-> 160,
      total_calculated |-> target_words]}

FallbackAnswers(target_words) ==
    {[kind |-> "raise", what |-> "quota", msg |-> QuotaMessage,
      insights |-> NoInsights, budget |-> NoBudget, has_total |-> FALSE]}
    \cup {[kind |-> "text", what |-> w, msg |-> "",
           insights |-> NoInsights, budget |-> NoBudget, has_total |-> FALSE] :
             w \in {"no_json", "bad_json"}}
    \cup {[kind |-> "text", what |-> "json", msg |-> "",
           insights |-> SomeInsights, budget |-> b, has_total |-> t] :
             b \in AnsweredBudgets(target_words), t \in BOOLEAN}

InitFallback ==
    /\ IdleLinks
    /\ IdleWorld
    /\ IdleCascade
    /\ IdlePipeline
    /\ IdleGemini
    /\ IdleExtract
    /\ IdleOffer
    /\ \E brief \in Briefs, target_words \in Targets :
         \E a \in FallbackAnswers(target_words) :
            fb_in = [brief |-> brief, target |-> target_words, answer |-> a]
    /\ fb_out = [status |-> "", msg |-> "", insights |-> NoInsights, budget |-> NoBudget]
    /\ fb_pc = "ready"

CallGenerateInsights ==
    /\ fb_pc = "ready"
    /\ fb_out' = generate_insights_result(fb_in.answer)
    /\ fb_pc' = "insights"
    /\ UNCHANGED <<fb_in, ex_vars, offer_vars, link_vars, env, calls, casc_vars, pipe_vars, gw_vars>>

CallCalculateWordBudget ==
    /\ fb_pc = "ready"
    /\ fb_out' = calculate_word_budget_result(fb_in.brief, fb_in.target, fb_in.answer)
    /\ fb_pc' = "budget"
    /\ UNCHANGED <<fb_in, ex_vars, offer_vars, link_vars, env, calls, casc_vars, pipe_vars, gw_vars>>

NextFallback == CallGenerateInsights \/ CallCalculateWordBudget

SpecFallback == InitFallback /\ [][NextFallback]_vars

---------------------------------------------------------------------------
(* Claims about the fallbacks and the budget *)

NoUsableJson ==
    /\ fb_in.answer.kind = "text"
    /\ fb_in.answer.what \in {"no_json", "bad_json"}

\* C21: when the answer has no JSON, or JSON that does not parse,
\* generate_insights returns six empty lists and calculate_word_budget
\* returns the budget of _fallback_budget; neither raises.
C21_FallbackWhenNoJson ==
    NoUsableJson =>
        /\ fb_pc = "insights" =>
              /\ fb_out.status = "ok"
              /\ fb_out.insights =
                    [people_also_ask |-> <<>>, related_subtopics |-> <<>>,
                     user_problems |-> <<>>, editorial_angles |-> <<>>,
                     lsi_keywords |-> <<>>, content_gaps |-> <<>>]
              /\ generate_insights(fb_in.answer) = Return("fallback")
        /\ fb_pc = "budget" =>
              /\ fb_out.status = "ok"
              /\ fb_out.budget = _fallback_budget(fb_in.brief, fb_in.target)
              /\ calculate_word_budget("parsed", fb_in.answer) = Return("fallback")

\* the fallback budget of a brief of two sections, for JSON that does not parse
C21_Witness ==
    /\ fb_pc = "budget"
    /\ fb_in.answer.what = "bad_json"
    /\ Len(fb_in.brief.sections) = 2
    /\ Len(fb_out.budget.sections) = 2
    /\ fb_out.budget.total_calculated = fb_in.target

RECURSIVE SumSeq(_)
SumSeq(q) == IF q = <<>> THEN 0 ELSE Head(q) + SumSeq(Tail(q))

\* the words of all the parts of a budget
Parts(b) ==
    b.intro + b.faq + b.conclusion
    + SumSeq([i \in 1..Len(b.sections) |->
                 b.sections[i].h2_intro + SumSeq(b.sections[i].subsections)])

\* C24: the parts of every budget calculate_word_budget returns sum to the
\* target within 30 words.
C24_BudgetSumsToTarget ==
    (fb_pc = "budget" /\ fb_out.status = "ok") =>
        /\ Parts(fb_out.budget) - fb_in.target <= 30
        /\ fb_in.target - Parts(fb_out.budget) <= 30

---------------------------------------------------------------------------
(* extract_json_from_text and json.loads, on texts made of tokens: the
   brackets and braces, "1" for a scalar, "a:" and "b:" for a key with its
   colon, ",", "x" for a word of prose, " " for white space, "fence" for the
   three backquotes of a fence and "json" for its tag *)

MaxProse == 1     \* longest enumerated prose before or after the value, in tokens

Fence   == "fence"
JsonTag == "json"
Space   == " "

Closer(open) == IF open = "{" THEN "}" ELSE "]"

\* \s* from position k: the first position that is not white space
RECURSIVE SkipSpace(_, _)
SkipSpace(t, k) ==
    IF k <= Len(t) /\ t[k] = Space THEN SkipSpace(t, k + 1) ELSE k

\* \s*``` right after position e
ClosesFence(t, e) ==
    LET k == SkipSpace(t, e + 1) IN k <= Len(t) /\ t[k] = Fence

\* group 1 of ```(?:json)?\s*(\{.*?\}|\[.*?\])\s*``` tried at position i
\* (<<>> when it does not match there); .*? stops at the first closer that
\* the rest of the pattern can follow
FencedAt(t, i) ==
    IF t[i] # Fence THEN <<>>
    ELSE LET a == IF i + 1 <= Len(t) /\ t[i + 1] = JsonTag THEN i + 2 ELSE i + 1
             k == SkipSpace(t, a)
         IN  IF k > Len(t) \/ t[k] \notin {"{", "["} THEN <<>>
             ELSE LET ends == {e \in (k + 1)..Len(t) :
                                 t[e] = Closer(t[k]) /\ ClosesFence(t, e)}
                  IN  IF ends = {} THEN <<>> ELSE SubSeq(t, k, Min(ends))

\* group 1 of (\{[\s\S]*\}|\[[\s\S]*\]) tried at position i: from an opening
\* brace to the last closing brace of the text, or the same with brackets
RawAt(t, i) ==
    IF t[i] \notin {"{", "["} THEN <<>>
    ELSE LET ends == {e \in (i + 1)..Len(t) : t[e] = Closer(t[i])}
         IN  IF ends = {} THEN <<>> ELSE SubSeq(t, i, Max(ends))

\* re.search takes the leftmost position where the pattern matches
extract_json_from_text(t) ==
    LET fenced == {i \in 1..Len(t) : FencedAt(t, i) # <<>>}
        raw    == {i \in 1..Len(t) : RawAt(t, i) # <<>>}
    IN  IF fenced # {} THEN [found |-> TRUE, text |-> FencedAt(t, Min(fenced))]
        ELSE IF raw # {} THEN [found |-> TRUE, text |-> RawAt(t, Min(raw))]
        ELSE [found |-> FALSE, text |-> <<>>]

\* JSON by recursive descent: the position after the value that starts at
\* position i, or 0 when there is none
RECURSIVE ParseValue(_, _), ParseElements(_, _), ParseMembers(_, _)
ParseValue(t, i) ==
    IF i > Len(t) THEN 0
    ELSE IF t[i] = "1" THEN i + 1
    ELSE IF t[i] = "["
         THEN IF i + 1 <= Len(t) /\ t[i + 1] = "]" THEN i + 2 ELSE ParseElements(t, i + 1)
    ELSE IF t[i] = "{"
         THEN IF i + 1 <= Len(t) /\ t[i + 1] = "}" THEN i + 2 ELSE ParseMembers(t, i + 1)
    ELSE 0

ParseElements(t, i) ==
    LET j == ParseValue(t, i)
    IN  IF j = 0 \/ j > Len(t) THEN 0
        ELSE IF t[j] = "," THEN ParseElements(t, j + 1)
        ELSE IF t[j] = "]" THEN j + 1
        ELSE 0

ParseMembers(t, i) ==
    IF i > Len(t) \/ t[i] \notin {"a:", "b:"} THEN 0
    ELSE LET j == ParseValue(t, i + 1)
         IN  IF j = 0 \/ j > Len(t) THEN 0
             ELSE IF t[j] = "," THEN ParseMembers(t, j + 1)
             ELSE IF t[j] = "}" THEN j + 1
             ELSE 0

NotSpace(c) == c # Space

\* json.loads: the value, written without white space, or JSONDecodeError
json_loads(t) ==
    LET u == SelectSeq(t, NotSpace)
    IN  IF u # <<>> /\ ParseValue(u, 1) = Len(u) + 1
        THEN [ok |-> TRUE, value |-> u]
        ELSE [ok |-> FALSE, value |-> <<>>]

\* arrays and objects over the values of V
Wrap(V) ==
    {<<"[", "]">>, <<"{", "}">>}
    \cup {<<"[">> \o v \o <<"]">> : v \in V}
    \cup {<<"{", "a:">> \o v \o <<"}">> : v \in V}

FlatValues ==
    Wrap({<<"1">>}) \cup {<<"[", "1", ",", "1", "]">>,
                         <<"{", "a:", "1", ",", "b:", "1", "}">>}

JsonValues == FlatValues \cup Wrap(FlatValues)

ProseTokens == {"x", "{", "}", "[", "]"}

\* prose: every short run of tokens, a remark in braces, a reference in brackets
Prose ==
    SeqsUpTo(ProseTokens, MaxProse) \cup {<<"{", "x", "}">>, <<"[", "1", "]">>}

Layouts == {"raw", "fenced", "fenced_json"}

Embed(before, value, after, layout) ==
    IF layout = "raw" THEN before \o <<Space>> \o value \o <<Space>> \o after
    ELSE IF layout = "fenced" THEN before \o <<Fence>> \o value \o <<Fence>> \o after
    ELSE before \o <<Fence, JsonTag, Space>> \o value \o <<Space, Fence>> \o after

InitExtract ==
    /\ IdleLinks
    /\ IdleWorld
    /\ IdleCascade
    /\ IdlePipeline
    /\ IdleGemini
    /\ IdleFallback
    /\ IdleOffer
    /\ \E before \in Prose, after \in Prose, value \in JsonValues, layout \in Layouts :
          ex_in = [value |-> value, layout |-> layout,
                   text |-> Embed(before, value, after, layout)]
    /\ ex_out = [found |-> FALSE, text |-> <<>>]
    /\ ex_parsed = [ok |-> FALSE, value |-> <<>>]
    /\ ex_pc = "ready"

CallExtract ==
    /\ ex_pc = "ready"
    /\ ex_out' = extract_json_from_text(ex_in.text)
    /\ ex_pc' = "extracted"
    /\ UNCHANGED <<ex_in, ex_parsed, fb_vars, offer_vars, link_vars, env, calls,
                   casc_vars, pipe_vars, gw_vars>>

\* the callers parse what was found: `if json_str: ... json.loads(json_str)`
CallJsonLoads ==
    /\ ex_pc = "extracted"
    /\ ex_out.found
    /\ ex_parsed' = json_loads(ex_out.text)
    /\ ex_pc' = "parsed"
    /\ UNCHANGED <<ex_in, ex_out, fb_vars, offer_vars, link_vars, env, calls,
                   casc_vars, pipe_vars, gw_vars>>

NextExtract == CallExtract \/ CallJsonLoads

SpecExtract == InitExtract /\ [][NextExtract]_vars

\* C22: for every JSON object or array embedded in prose or in a fenced
\* block, the extraction finds a text, and parsing it gives the embedded value.
C22_ExtractRoundTrips ==
    /\ ex_pc = "extracted" => ex_out.found
    /\ ex_pc = "parsed" => ex_parsed = json_loads(ex_in.value)

---------------------------------------------------------------------------
(* find_internal_links: the URLs offered to the generator in the prompt *)

MaxOfferSitemap == 101   \* most URLs in an enumerated sitemap of this part

MinParts       == 4      \* len(u.rstrip("/").split("/")) >= 4
SubstantiveCap == 100    \* [...][:100]
AllCap         == 80     \* sitemap_urls[:80]

\* len(u.rstrip("/").split("/"))
split_count(u) ==
    LET r == rstrip(u, {"/"})
    IN  1 + Cardinality({i \in 1..Len(r) : r[i] = "/"})

IsSubstantive(u) == split_count(u) >= MinParts

\* s[:n]
Prefix(s, n) == SubSeq(s, 1, Min({n, Len(s)}))

\* as select_candidate_urls, without the two slices (a mutation)
select_candidate_urls_uncapped(sitemap) ==
    LET substantive == SelectSeq(sitemap, IsSubstantive)
    IN  IF substantive # <<>> THEN substantive ELSE sitemap

select_candidate_urls(sitemap) ==
    LET substantive == Prefix(SelectSeq(sitemap, IsSubstantive), SubstantiveCap)
    IN  IF substantive # <<>> THEN substantive ELSE Prefix(sitemap, AllCap)

\* the i-th page of a category, the i-th category page (with and without a
\* final slash), and the home page
DeepUrl(i)    == <<"h", ":", "/", "/", "s", "/", "c", "/", ToString(i)>>
ShallowUrl(i) ==
    IF i = 1 THEN <<"h", ":", "/", "/", "s", "/">>
    ELSE IF i % 2 = 0 THEN <<"h", ":", "/", "/", ToString(i), "/">>
    ELSE <<"h", ":", "/", "/", ToString(i)>>

\* shallow URLs, then deep ones, then possibly a page right under the home page
OfferSitemaps ==
    {[i \in 1..b |-> ShallowUrl(i)] \o [i \in 1..d |-> DeepUrl(i)] \o tail :
        b \in 0..MaxOfferSitemap, d \in 0..MaxOfferSitemap,
        tail \in {<<>>, <<<<"h", ":", "/", "/", "s", "/", "p", "/">>>>}}

InitOffer ==
    /\ IdleLinks
    /\ IdleWorld
    /\ IdleCascade
    /\ IdlePipeline
    /\ IdleGemini
    /\ IdleFallback
    /\ IdleExtract
    /\ offer_sitemap \in {s \in OfferSitemaps : Len(s) <= MaxOfferSitemap}
    /\ candidate_urls = <<>>
    /\ offer_pc = "ready"

\* `if not sitemap_urls: return []` comes before the choice
ReturnEmpty ==
    /\ offer_pc = "ready"
    /\ offer_sitemap = <<>>
    /\ offer_pc' = "returned"
    /\ UNCHANGED <<offer_sitemap, candidate_urls, fb_vars, ex_vars, link_vars, env, calls,
                   casc_vars, pipe_vars, gw_vars>>

BuildCandidateUrls ==
    /\ offer_pc = "ready"
    /\ offer_sitemap # <<>>
    /\ candidate_urls' = select_candidate_urls(offer_sitemap)
    /\ offer_pc' = "offered"
    /\ UNCHANGED <<offer_sitemap, fb_vars, ex_vars, link_vars, env, calls,
                   casc_vars, pipe_vars, gw_vars>>

NextOffer == ReturnEmpty \/ BuildCandidateUrls

SpecOffer == InitOffer /\ [][NextOffer]_vars

SubstantiveUrls == SelectSeq(offer_sitemap, IsSubstantive)

---------------------------------------------------------------------------
(* More claims about the link validator *)

\* candidate i of the response was returned with the URL u
ReturnedAs(i, u) ==
    \E k \in 1..Len(valid_links) : valid_links[k].id = i /\ valid_links[k].url = u

\* the positions of the sitemap URLs that contain c or, without their final
\* slashes, are contained in c
ContainmentHits(c) ==
    {j \in 1..Len(sitemap_urls) :
        \/ IsIn(c, sitemap_urls[j])
        \/ IsIn(rstrip(sitemap_urls[j], {"/"}), c)}

ExactRule(c) == c \in SeqRange(sitemap_urls)

StrippedRule(c) ==
    \E j \in 1..Len(sitemap_urls) : rstrip(sitemap_urls[j], {"/"}) = rstrip(c, {"/"})

\* C25: per candidate the first rule that matches decides: a URL that is in
\* the sitemap is kept as proposed; otherwise a URL equal to a sitemap URL up
\* to final slashes receives that sitemap URL; otherwise a URL with a
\* containment match receives the first sitemap URL, in sitemap order, that
\* contains it or is contained in it.
C25_RulesInOrderFirstMatchWins ==
    (LinkReturned /\ response.kind = "obj") =>
        \A i \in 1..Len(response.links) :
            LET cand == response.links[i]
                c    == strip(cand.url)
            IN  (cand.t = "str" /\ c # <<>>) =>
                    IF ExactRule(c)
                    THEN ReturnedAs(i, cand.url)
                    ELSE IF StrippedRule(c)
                    THEN \E j \in 1..Len(sitemap_urls) :
                            /\ rstrip(sitemap_urls[j], {"/"}) = rstrip(c, {"/"})
                            /\ ReturnedAs(i, sitemap_urls[j])
                    ELSE ContainmentHits(rstrip(c, {"/"})) # {} =>
                            ReturnedAs(i, sitemap_urls[Min(ContainmentHits(rstrip(c, {"/"})))])

---------------------------------------------------------------------------
(* More claims about the two scraping strategies *)

\* the position of the call of a strategy in calls, 0 when it was not called
CallPos(op) ==
    LET at == {i \in 1..Len(calls) : calls[i].op = op}
    IN  IF at = {} THEN 0 ELSE Min(at)

\* the calls a strategy made after its search request: up to the next
\* strategy call, or to the end
CallsOf(op) ==
    LET from  == CallPos(op)
        later == {i \in (from + 1)..Len(calls) : IsStrategyCall(calls[i])}
        to    == IF later = {} THEN Len(calls) ELSE Min(later) - 1
    IN  IF from = 0 THEN <<>> ELSE SubSeq(calls, from + 1, to)

IsPageFetch(c) == c.op = "page_fetch"

GoogleRefused == ~env.google.exc /\ (env.google.status # 200 \/ env.google.blocked)

\* C26: when the Google response has a status other than 200 or a block
\* phrase, the Google strategy returns no record and fetches no page, however
\* many result entries the response has.
C26_BlockedGoogleIsTotalFailure ==
    (casc_pc # "ready" /\ GoogleRefused) =>
        /\ CallPos("google_search") = 1
        /\ CallsOf("google_search") = <<>>
        /\ source # <<"google">>
        /\ CallPos("ddg_search") = 2

\* a block page with status 200 and two result entries, three asked for or fewer
C26_Witness ==
    /\ casc_pc = "returned"
    /\ env.google = [exc |-> FALSE, status |-> 200, blocked |-> TRUE, entries |-> MaxEntries]
    /\ num_results >= 1
    /\ CallsOf("google_search") = <<>>

\* the calls of one strategy: at most n page fetches, in rank order, each
\* right after a delay
FetchesOneByOne(cs, n) ==
    /\ Len(SelectSeq(cs, IsPageFetch)) <= n
    /\ Len(cs) % 2 = 0
    /\ \A j \in 1..Len(cs) :
          IF j % 2 = 1 THEN cs[j] = Call("random_delay", (j + 1) \div 2)
                       ELSE cs[j] = Call("page_fetch", j \div 2)

\* the number of results a strategy found on its search page
Survivors ==
    IF source = <<"google">> THEN env.google.entries
    ELSE IF source = <<"duckduckgo">> THEN env.ddg.entries
    ELSE 0

\* C27: each scraping strategy fetches at most num_results pages, one by one
\* with a delay before each, and returns at most num_results records: the
\* first num_results results of its search page, in rank order.
C27_AtMostDesiredCountInRankOrder ==
    casc_pc # "ready" =>
        /\ FetchesOneByOne(CallsOf("google_search"), num_results)
        /\ FetchesOneByOne(CallsOf("ddg_search"), num_results)
        /\ Len(results) <= num_results
        /\ \A i \in 1..Len(results) : results[i].rank = i
        /\ source \in {<<"google">>, <<"duckduckgo">>} =>
              /\ Len(results) = Min({num_results, Survivors})
              /\ Len(SelectSeq(CallsOf(IF source = <<"google">> THEN "google_search"
                                                               ELSE "ddg_search"),
                               IsPageFetch)) = Len(results)

\* DuckDuckGo found more results than asked for, after Google found none
C27_Witness ==
    /\ casc_pc = "returned"
    /\ source = <<"duckduckgo">>
    /\ env.ddg.entries > num_results
    /\ Len(results) = num_results
    /\ Len(CallsOf("ddg_search")) = 2 * num_results

---------------------------------------------------------------------------
(* The candidates after validation *)

\* C28: after find_internal_links has returned, the candidate records parsed
\* from the response still carry the URLs the generator proposed.
C28_CandidatesNotMutated ==
    (link_pc = "returned" /\ sitemap_urls # <<>> /\ response.kind = "obj") =>
        /\ Len(raw_links) = Len(response.links)
        /\ \A i \in 1..Len(raw_links) : raw_links[i] = response.links[i]

---------------------------------------------------------------------------
(* The running flag *)

RunInProgress == pipe_pc \in SeqRange(StepOrder)

\* C29: the running flag of the session is true only while a run is in
\* progress, and it is false when the run has ended: after a failure of the
\* API clients, after the failure of any stage, and after success.
C29_RunningOnlyDuringRun ==
    /\ running => RunInProgress
    /\ RunEnded => ~running
    /\ pipe_pc = "idle" => ~running

\* a run was stopped by the failure of a stage after the first
C29_Witness ==
    /\ pipe_pc = "stopped"
    /\ Len(progress) >= 2
    /\ FailedStages # {}
    /\ pipeline_error # ""
    /\ ~running

---------------------------------------------------------------------------
(* The precedence of the error kinds *)

HasNotFound(e) == e \cap NotFoundMarkers # {}
HasQuota(e)    == e \cap QuotaMarkers # {}
HasOverload(e) == e \cap OverloadMarkers # {}

\* C30: a failed call is handled by the first kind its error has a marker
\* of, in the order not-found, quota, overload, other: with a not-found
\* marker the next model is tried and nothing is raised at that point, also
\* when the error has a quota marker; with a quota marker and no not-found
\* marker the quota error is raised at once, with no sleep and no retry, also
\* when the error has an overload marker.
C30_ErrorKindPrecedence ==
    \A i \in LogCalls :
        ~gw_log[i].ok =>
            LET e == gw_log[i].err
            IN  /\ HasNotFound(e) =>
                      /\ MovesToNextModel(i)
                      /\ i = Len(gw_log) => gw_raise \in {"", "exhausted"}
                /\ (~HasNotFound(e) /\ HasQuota(e)) =>
                      /\ i = Len(gw_log)
                      /\ gw_pc = "raised"
                      /\ gw_raise = "quota"
                /\ (~HasNotFound(e) /\ ~HasQuota(e) /\ ~HasOverload(e)) =>
                      /\ i = Len(gw_log)
                      /\ gw_pc = "raised"
                      /\ gw_raise = "other"

\* an error with a not-found and a quota marker led to the next model, whose
\* error with a quota and an overload marker raised the quota error
C30_Witness ==
    /\ gw_pc = "raised"
    /\ gw_raise = "quota"
    /\ Len(gw_log) = 2
    /\ gw_log[1].err = {"404", "429"}
    /\ gw_log[2].err = {"429", "503"}
    /\ gw_log[2].model # gw_log[1].model

====
